---- MODULE Spec2Model ----
(***************************************************************************)
(* The pointer core of the Cap'n Proto message library (capn.go): decoding *)
(* of pointer words into struct, list and interface views (readPtr),       *)
(* encoding of views into pointer words (writePtr) and structural equality *)
(* (Equal), over messages made of byte segments.                           *)
(*                                                                         *)
(* Representation of the machine types.                                    *)
(*  - A byte is 0..255 and a segment's data is a sequence of bytes; the    *)
(*    byte at Address a is data[a + 1].                                    *)
(*  - A rawPointer (uint64) is carried as its eight little-endian bytes,   *)
(*    exactly as readUint64 finds them in the segment.                     *)
(*  - Address, Size, SegmentID and CapabilityID are uint32.  The checker's *)
(*    integers are 32 bit signed, so a uint32 is carried as the int32 with *)
(*    the same bits (a value v >= 2^31 is carried as v - 2^32).  ULt and   *)
(*    ULe compare such values as unsigned numbers, and addSize, times and  *)
(*    resolve compute on them exactly.                                     *)
(***************************************************************************)
EXTENDS Integers, Sequences, FiniteSets, TLC

VARIABLES
  msgs,    \* the messages: segments (data, cap), read budget, capability table
  held,    \* the views the caller holds: held[1], held[2]
  last,    \* the outcome of the last operation
  ghost    \* bookkeeping of the run: what has been spent, poked, followed

vars == <<msgs, held, last, ghost>>

----------------------------------------------------------------------------
(* uint32 values and the checked arithmetic on Address and Size *)

MaxInt32 == 2147483647
MinInt32 == (-MaxInt32) - 1
Two28 == 268435456
Two29 == 536870912
Two30 == 1073741824

wordSize == 8

\* a < b and a <= b of two uint32
ULt(a, b) == IF (a < 0) = (b < 0) THEN a < b ELSE b < 0
ULe(a, b) == a = b \/ ULt(a, b)

\* the uint32 that is w words and r bytes, for 0 <= w < 2^29, 0 <= r < 8
FromWords(w, r) == IF w < Two28 THEN 8 * w + r ELSE 8 * (w - Two29) + r
\* the number of whole words of a uint32, and the bytes left over
WordsOf(a) == IF a >= 0 THEN a \div 8 ELSE ((a - MinInt32) \div 8) + Two28
RemOf(a) == IF a >= 0 THEN a % 8 ELSE (a - MinInt32) % 8

\* Address.addSize: a + sz computed in 64 bits; not ok above maxSize (2^32 - 1)
addSize(a, sz) ==
  IF a >= 0 /\ sz >= 0
  THEN [ok |-> TRUE,
        v  |-> IF a > MaxInt32 - sz THEN (a + MinInt32) + (sz + MinInt32) ELSE a + sz]
  ELSE IF a < 0 /\ sz < 0 THEN [ok |-> FALSE, v |-> 0]
  ELSE IF a + sz < 0 THEN [ok |-> TRUE, v |-> a + sz]
  ELSE [ok |-> FALSE, v |-> 0]

\* Size.times: sz * n (n an int32) computed in 64 bits; ok iff the product is
\* a Size, that is within 0 .. maxSize.  A zero product is ok whatever n is.
times(sz, n) ==
  IF n = 0 \/ sz = 0 THEN [ok |-> TRUE, v |-> 0]
  ELSE IF n < 0 THEN [ok |-> FALSE, v |-> 0]
  ELSE IF sz < 0 THEN [ok |-> n = 1, v |-> IF n = 1 THEN sz ELSE 0]
  ELSE IF n <= MaxInt32 \div sz THEN [ok |-> TRUE, v |-> sz * n]
  ELSE LET q == MaxInt32 \div sz
           Q == 2 * q + ((2 * (MaxInt32 % sz) + 1) \div sz)  \* (2^32 - 1) \div sz
           t == sz * (n \div 2)
       IN IF n > Q THEN [ok |-> FALSE, v |-> 0]
          ELSE [ok |-> TRUE, v |-> ((t + MinInt32) + sz * (n % 2)) + (t + MinInt32)]

\* pointerOffset.resolve: base + 8 * (off + 1) for a signed word offset off;
\* not ok when the result is outside 0 .. 2^32 - 1
resolve(off, base) ==
  LET aw == WordsOf(base) + off + 1
  IN IF aw < 0 \/ aw >= Two29 THEN [ok |-> FALSE, v |-> 0]
     ELSE [ok |-> TRUE, v |-> FromWords(aw, RemOf(base))]

\* ObjectSize{DataSize, PointerCount}
ObjectSize(d, p) == [DataSize |-> d, PointerCount |-> p]
pointerSize(sz) == wordSize * sz.PointerCount
totalSize(sz) == sz.DataSize + pointerSize(sz)
padToWord(n) == ((n + (wordSize - 1)) \div wordSize) * wordSize

----------------------------------------------------------------------------
(* The raw pointer codec: the 64 bit pointer word, as eight bytes *)

Byte == 0..255
ZeroWord == <<0, 0, 0, 0, 0, 0, 0, 0>>

structPointer == 0
listPointer == 1
farPointer == 2
otherPointer == 3
doubleFarPointer == 6

voidList == 0
bit1List == 1
byte1List == 2
byte2List == 3
byte4List == 4
byte8List == 5
pointerList == 6
compositeList == 7

\* the uint32 of four little-endian bytes
U32(b0, b1, b2, b3) ==
  b0 + 256 * b1 + 65536 * b2 + 16777216 * (IF b3 >= 128 THEN b3 - 256 ELSE b3)
\* the four little-endian bytes of a uint32
U32Bytes(v) ==
  LET x == IF v >= 0 THEN v ELSE v - MinInt32
      top == IF v >= 0 THEN 0 ELSE 128
  IN <<x % 256, (x \div 256) % 256, (x \div 65536) % 256, (x \div 16777216) + top>>

\* bits 0..1, and for a far pointer bit 2 too (doubleFarPointer = 6)
pointerType(p) ==
  IF p[1] % 4 = farPointer THEN p[1] % 8 ELSE p[1] % 4

\* bits 2..31 as an unsigned number, and as the signed 30 bit word offset
offsetBits(p) == (p[1] \div 4) + 64 * p[2] + 16384 * p[3] + 4194304 * p[4]
offset(p) == IF offsetBits(p) >= Two29 THEN offsetBits(p) - Two30 ELSE offsetBits(p)

\* bits 32..47 data words, bits 48..63 pointer count
structSize(p) == ObjectSize(wordSize * (p[5] + 256 * p[6]), p[7] + 256 * p[8])

\* bits 32..34 element size tag, bits 35..63 element count
listType(p) == p[5] % 8
numListElements(p) == (p[5] \div 8) + 32 * p[6] + 8192 * p[7] + 2097152 * p[8]

elementSize(p) ==
  CASE listType(p) = byte1List -> ObjectSize(1, 0)
    [] listType(p) = byte2List -> ObjectSize(2, 0)
    [] listType(p) = byte4List -> ObjectSize(4, 0)
    [] listType(p) = byte8List -> ObjectSize(8, 0)
    [] listType(p) = pointerList -> ObjectSize(0, 1)
    [] OTHER -> ObjectSize(0, 0)

\* the byte size of the list a list pointer declares; for a composite list
\* the element count field is the payload's word count
totalListSize(p) ==
  CASE listType(p) = voidList -> [ok |-> TRUE, v |-> 0]
    [] listType(p) = bit1List -> [ok |-> TRUE, v |-> (numListElements(p) + 7) \div 8]
    [] listType(p) = compositeList -> times(wordSize, numListElements(p))
    [] OTHER -> times(totalSize(elementSize(p)), numListElements(p))

\* far pointer: bits 3..31 landing pad word address, bits 32..63 segment id
farAddress(p) == FromWords((p[1] \div 8) + 32 * p[2] + 8192 * p[3] + 2097152 * p[4], 0)
farSegment(p) == U32(p[5], p[6], p[7], p[8])

\* other pointer: bits 2..31 must be zero for a capability, bits 32..63 index
otherPointerType(p) == offsetBits(p)
capabilityIndex(p) == U32(p[5], p[6], p[7], p[8])

\* the low four bytes holding a type and a 30 bit offset field
LowWord(type, off) ==
  LET u == IF off < 0 THEN off + Two30 ELSE off
  IN <<type + 4 * (u % 64), (u \div 64) % 256, (u \div 16384) % 256, u \div 4194304>>

rawStructPointer(off, sz) ==
  LET dw == sz.DataSize \div wordSize
  IN LowWord(structPointer, off)
       \o <<dw % 256, dw \div 256, sz.PointerCount % 256, sz.PointerCount \div 256>>

rawListPointer(off, lt, n) ==
  LowWord(listPointer, off)
    \o <<lt + 8 * (n % 32), (n \div 32) % 256, (n \div 8192) % 256, n \div 2097152>>

rawFarWord(type, id, addr) ==
  LET w == WordsOf(addr)
  IN <<type + 8 * (w % 32), (w \div 32) % 256, (w \div 8192) % 256, w \div 2097152>>
       \o U32Bytes(id)

rawFarPointer(id, addr) == rawFarWord(farPointer, id, addr)
rawDoubleFarPointer(id, addr) == rawFarWord(doubleFarPointer, id, addr)
rawInterfacePointer(cap) == <<otherPointer, 0, 0, 0>> \o U32Bytes(cap)

\* the near pointer a double-far landing pad stands for: the tag word with its
\* offset replaced so that it resolves, from address 0, to far's address
landingPadNearPointer(far, tag) ==
  LowWord(tag[1] % 4, WordsOf(farAddress(far)) - 1) \o SubSeq(tag, 5, 8)

----------------------------------------------------------------------------
(* Messages, segments and views *)

\* A Segment is [data, cap, spare]: the bytes of s.data, the capacity of the
\* slice, and the cap - len bytes of the backing array behind s.data (zero in
\* a fresh arena; a slice expression reaches them, and alloc clears what it
\* hands out).  Segment id i of message m is msgs[m].segs[i+1].
\* A Message is [segs, limit, caps]: its segments, what is left of the read
\* traversal budget, and the capability table (clients, 0 = nil).
Seg(ms, m, sid) == ms[m].segs[sid + 1]
NumSegs(ms, m) == Len(ms[m].segs)
SegLen(s) == Len(s.data)

\* Ptr, Struct, List and Interface are one record; kind is the pointer type
\* of ptrFlags, flags the struct and list flags.
NullPtr ==
  [kind |-> "null", msg |-> 0, seg |-> 0, off |-> 0, size |-> ObjectSize(0, 0),
   length |-> 0, flags |-> {}, depthLimit |-> 0, cap |-> 0]
StructView(m, sid, off, sz, fl, depth) ==
  [NullPtr EXCEPT !.kind = "struct", !.msg = m, !.seg = sid, !.off = off,
                  !.size = sz, !.flags = fl, !.depthLimit = depth]
ListView(m, sid, off, sz, n, fl, depth) ==
  [NullPtr EXCEPT !.kind = "list", !.msg = m, !.seg = sid, !.off = off,
                  !.size = sz, !.length = n, !.flags = fl, !.depthLimit = depth]
InterfaceView(m, sid, c) ==
  [NullPtr EXCEPT !.kind = "interface", !.msg = m, !.seg = sid, !.cap = c]
IsValid(p) == p.kind # "null"

errNil == "nil"
errPointerAddress == "PointerAddress"
errBadLandingPad == "BadLandingPad"
errBadTag == "BadTag"
errOtherPointer == "OtherPointer"
errReadLimit == "ReadLimit"
errDepthLimit == "DepthLimit"
errOverflow == "Overflow"
\* not an error value: the Go runtime aborts on a slice bound out of range
Panic == "panic"

inBounds(s, addr) == ULt(addr, SegLen(s))

EndInBounds(s, end) == end.ok /\ ULe(end.v, SegLen(s))
regionInBounds(s, base, sz) == EndInBounds(s, addSize(base, sz))

\* s.data[base : base+sz].  ok: the slice expression does not abort (its end
\* is within the capacity); inb: the region lies inside s.data.
SliceOf(s, base, sz, ok) ==
  [ok  |-> ok,
   inb |-> ok /\ base + sz <= SegLen(s),
   b   |-> IF ok
           THEN [i \in 1..sz |-> IF base + i <= SegLen(s) THEN s.data[base + i]
                                  ELSE s.spare[base + i - SegLen(s)]]
           ELSE <<>>]
\* the slice expression does not abort: 0 <= base <= base + sz <= cap
SliceOk(s, base, sz) == base >= 0 /\ sz >= 0 /\ base <= s.cap /\ sz <= s.cap - base
slice(s, base, sz) == SliceOf(s, base, sz, SliceOk(s, base, sz))

RawOf(r) == [ok |-> r.ok, inb |-> r.inb, val |-> IF r.ok THEN r.b ELSE ZeroWord]
readRawPointer(s, addr) == RawOf(slice(s, addr, wordSize))

\* Message.Segment(id): the segment, or BadLandingPad if there is none
lookupSegment(ms, m, sid, id) ==
  IF sid = id THEN [err |-> errNil, seg |-> sid]
  ELSE IF id >= 0 /\ id < NumSegs(ms, m) THEN [err |-> errNil, seg |-> id]
  ELSE [err |-> errBadLandingPad, seg |-> sid]

\* Message.canRead(sz): deducts sz from the read budget; not ok, and nothing
\* left, when sz exceeds it
CanReadOf(limit, sz, ok) == [ok |-> ok, limit |-> IF ok THEN limit - sz ELSE 0]
canRead(limit, sz) == CanReadOf(limit, sz, sz >= 0 /\ sz <= limit)

\* Struct.readSize and List.readSize: the bytes of the object
SizeOrMax(t) == IF t.ok THEN t.v ELSE -1
readSize(p) ==
  CASE p.kind = "struct" -> totalSize(p.size)
    [] p.kind = "list" /\ "isBitList" \in p.flags -> (p.length + 7) \div 8
    [] p.kind = "list" -> SizeOrMax(times(totalSize(p.size), p.length))
    [] OTHER -> 0

----------------------------------------------------------------------------
(* The pointer reader *)

FarResult(err, sid, off, val, inb) ==
  [err |-> err, seg |-> sid, off |-> off, val |-> val, inb |-> inb]
FarFail(err, inb) == FarResult(err, 0, 0, ZeroWord, inb)

\* resolveFarPointer, double-far case, from the second segment lookup on
DoubleFarTarget(far, tag, lk2) ==
  IF lk2.err # errNil THEN FarFail(errBadLandingPad, far.inb /\ tag.inb)
  ELSE FarResult(errNil, lk2.seg, 0, landingPadNearPointer(far.val, tag.val),
                 far.inb /\ tag.inb)

\* resolveFarPointer, double-far case, from the reads of the landing pad on
DoubleFarPad(ms, m, seg1, far, tagStart, tag) ==
  IF ~far.ok THEN FarFail(Panic, FALSE)
  ELSE IF ~tagStart.ok THEN FarFail(errOverflow, far.inb)
  ELSE IF ~tag.ok THEN FarFail(Panic, FALSE)
  ELSE IF pointerType(far.val) # farPointer \/ offset(tag.val) # 0
  THEN FarFail(errPointerAddress, far.inb /\ tag.inb)
  ELSE DoubleFarTarget(far, tag, lookupSegment(ms, m, seg1, farSegment(far.val)))

DoubleFarRead(ms, m, seg1, faroff, tagStart) ==
  DoubleFarPad(ms, m, seg1, readRawPointer(Seg(ms, m, seg1), faroff), tagStart,
               readRawPointer(Seg(ms, m, seg1), tagStart.v))

resolveDoubleFar(ms, m, faroff, lk) ==
  IF lk.err # errNil THEN FarFail(lk.err, TRUE)
  ELSE IF ~regionInBounds(Seg(ms, m, lk.seg), faroff, wordSize * 2)
  THEN FarFail(errPointerAddress, TRUE)
  ELSE DoubleFarRead(ms, m, lk.seg, faroff, addSize(faroff, wordSize))

\* resolveFarPointer, far case, from the read of the landing pad on
FarPad(seg1, faroff, pad) ==
  IF ~pad.ok THEN FarFail(Panic, FALSE)
  ELSE FarResult(errNil, seg1, faroff, pad.val, pad.inb)

resolveFar(ms, m, faroff, lk) ==
  IF lk.err # errNil THEN FarFail(lk.err, TRUE)
  ELSE IF ~regionInBounds(Seg(ms, m, lk.seg), faroff, wordSize)
  THEN FarFail(errPointerAddress, TRUE)
  ELSE FarPad(lk.seg, faroff, readRawPointer(Seg(ms, m, lk.seg), faroff))

resolveFarPointer(ms, m, sid, off, val) ==
  CASE pointerType(val) = doubleFarPointer ->
         resolveDoubleFar(ms, m, farAddress(val),
                          lookupSegment(ms, m, sid, farSegment(val)))
    [] pointerType(val) = farPointer ->
         resolveFar(ms, m, farAddress(val), lookupSegment(ms, m, sid, farSegment(val)))
    [] OTHER -> FarResult(errNil, sid, off, val, TRUE)

ViewResult(err, ptr, inb) == [err |-> err, ptr |-> ptr, inb |-> inb]

StructAt(ms, m, sid, addr, sz) ==
  IF ~addr.ok THEN ViewResult(errPointerAddress, NullPtr, TRUE)
  ELSE IF ~regionInBounds(Seg(ms, m, sid), addr.v, totalSize(sz))
  THEN ViewResult(errPointerAddress, NullPtr, TRUE)
  ELSE ViewResult(errNil, StructView(m, sid, addr.v, sz, {}, 0), TRUE)

readStructPtr(ms, m, sid, off, val) ==
  StructAt(ms, m, sid, resolve(offset(val), off), structSize(val))

\* readListPtr, composite case, from the read of the tag word on
CompositeList(s, m, sid, hdr, addr, sz, n, tsize) ==
  IF ~hdr.ok THEN ViewResult(Panic, NullPtr, FALSE)
  ELSE IF ~addr.ok THEN ViewResult(errOverflow, NullPtr, hdr.inb)
  ELSE IF pointerType(hdr.val) # structPointer
  THEN ViewResult(errBadTag, NullPtr, hdr.inb)
  ELSE IF ~tsize.ok THEN ViewResult(errOverflow, NullPtr, hdr.inb)
  ELSE IF ~regionInBounds(s, addr.v, tsize.v)
  THEN ViewResult(errPointerAddress, NullPtr, hdr.inb)
  ELSE ViewResult(errNil, ListView(m, sid, addr.v, sz, n, {"isCompositeList"}, 0),
                  hdr.inb)

CompositeTag(s, m, sid, hdr, addr) ==
  CompositeList(s, m, sid, hdr, addr, structSize(hdr.val), offset(hdr.val),
                times(totalSize(structSize(hdr.val)), offset(hdr.val)))

ListAt(s, m, sid, val, addr, lsize) ==
  IF ~addr.ok THEN ViewResult(errPointerAddress, NullPtr, TRUE)
  ELSE IF ~lsize.ok THEN ViewResult(errOverflow, NullPtr, TRUE)
  ELSE IF ~regionInBounds(s, addr.v, lsize.v)
  THEN ViewResult(errPointerAddress, NullPtr, TRUE)
  ELSE IF listType(val) = compositeList
  THEN CompositeTag(s, m, sid, readRawPointer(s, addr.v), addSize(addr.v, wordSize))
  ELSE IF listType(val) = bit1List
  THEN ViewResult(errNil,
                  ListView(m, sid, addr.v, ObjectSize(0, 0), numListElements(val),
                           {"isBitList"}, 0),
                  TRUE)
  ELSE ViewResult(errNil,
                  ListView(m, sid, addr.v, elementSize(val), numListElements(val),
                           {}, 0),
                  TRUE)

readListPtr(ms, m, sid, off, val) ==
  ListAt(Seg(ms, m, sid), m, sid, val, resolve(offset(val), off), totalListSize(val))

\* The outcome of readPtr: the pointer, the error, what is left of the
\* message's read budget, and whether every segment access lay in bounds.
ReadResult(ptr, err, limit, inb) ==
  [ptr |-> ptr, err |-> err, limit |-> limit, inb |-> inb]

\* the struct and list cases of readPtr: the budget check and the depth
Budgeted_KeepDepth(v, c, depthLimit, inb) ==
  IF ~c.ok THEN ReadResult(NullPtr, errReadLimit, c.limit, inb /\ v.inb)
  ELSE ReadResult([v.ptr EXCEPT !.depthLimit = depthLimit], errNil, c.limit, inb /\ v.inb)
Budgeted(v, c, depthLimit, inb) ==
  IF ~c.ok THEN ReadResult(NullPtr, errReadLimit, c.limit, inb /\ v.inb)
  ELSE ReadResult([v.ptr EXCEPT !.depthLimit = depthLimit - 1],
                  errNil, c.limit, inb /\ v.inb)

ReadView_Unmetered(v, limit, depthLimit, inb) ==
  IF v.err # errNil THEN ReadResult(NullPtr, v.err, limit, inb /\ v.inb)
  ELSE Budgeted(v, CanReadOf(limit, 0, TRUE), depthLimit, inb)
ReadView(v, limit, depthLimit, inb) ==
  IF v.err # errNil THEN ReadResult(NullPtr, v.err, limit, inb /\ v.inb)
  ELSE Budgeted(v, canRead(limit, readSize(v.ptr)), depthLimit, inb)

\* readPtr from the resolved pointer word on
Dispatch(ms, m, r, limit, depthLimit, inb) ==
  IF r.err # errNil THEN ReadResult(NullPtr, r.err, limit, inb /\ r.inb)
  ELSE IF r.val = ZeroWord THEN ReadResult(NullPtr, errNil, limit, inb /\ r.inb)
  ELSE IF depthLimit = 0 THEN ReadResult(NullPtr, errDepthLimit, limit, inb /\ r.inb)
  ELSE CASE pointerType(r.val) = structPointer ->
              ReadView(readStructPtr(ms, m, r.seg, r.off, r.val),
                       limit, depthLimit, inb /\ r.inb)
         [] pointerType(r.val) = listPointer ->
              ReadView(readListPtr(ms, m, r.seg, r.off, r.val),
                       limit, depthLimit, inb /\ r.inb)
         [] pointerType(r.val) = otherPointer ->
              IF otherPointerType(r.val) # 0
              THEN ReadResult(NullPtr, errOtherPointer, limit, inb /\ r.inb)
              ELSE ReadResult(InterfaceView(m, r.seg, capabilityIndex(r.val)),
                              errNil, limit, inb /\ r.inb)
         [] OTHER -> ReadResult(NullPtr, errBadLandingPad, limit, inb /\ r.inb)

Resolved(ms, m, sid, off, depthLimit, w) ==
  IF ~w.ok THEN ReadResult(NullPtr, Panic, ms[m].limit, FALSE)
  ELSE Dispatch(ms, m, resolveFarPointer(ms, m, sid, off, w.val),
                ms[m].limit, depthLimit, w.inb)

readPtr(ms, m, sid, off, depthLimit) ==
  Resolved(ms, m, sid, off, depthLimit, readRawPointer(Seg(ms, m, sid), off))

----------------------------------------------------------------------------
(* Accessors of the views *)

\* Struct.pointerAddress(i): the struct was bounds checked when it was read
pointerAddress(st, i) == st.off + st.size.DataSize + wordSize * i

\* Struct.Ptr(i): the i-th pointer of the struct, read with the struct's depth
StructPtr(ms, st, i) ==
  IF st.kind # "struct" \/ i < 0 \/ i >= st.size.PointerCount
  THEN ReadResult(NullPtr, errNil, IF st.msg = 0 THEN 0 ELSE ms[st.msg].limit, TRUE)
  ELSE readPtr(ms, st.msg, st.seg, pointerAddress(st, i), st.depthLimit)

\* Struct.HasPtr(i): the encoded word is not zero
HasPtr(ms, st, i) ==
  /\ st.kind = "struct"
  /\ i >= 0 /\ i < st.size.PointerCount
  /\ readRawPointer(Seg(ms, st.msg, st.seg), pointerAddress(st, i)).val # ZeroWord

\* List.Len
ListLen(l) == IF l.kind = "list" THEN l.length ELSE 0

\* List.Struct(i): element i as a struct (a list member); the null struct for
\* a bit list or an index out of range
ListStruct(l, i) ==
  IF l.kind # "list" \/ i < 0 \/ i >= l.length \/ "isBitList" \in l.flags
  THEN NullPtr
  ELSE StructView(l.msg, l.seg, l.off + i * totalSize(l.size), l.size,
                  {"isListMember"}, l.depthLimit)

----------------------------------------------------------------------------
(* The pointer writer *)

\* the outcome of a write: the error and the messages as the write left them
WriteResult(err, ms) == [err |-> err, ms |-> ms]
SetLimit(ms, m, limit) == [ms EXCEPT ![m].limit = limit]
SetData(ms, m, sid, data) == [ms EXCEPT ![m].segs[sid + 1].data = data]
Zeros(n) == [i \in 1..n |-> 0]
PutBytes(d, addr, b) ==
  [i \in 1..Len(d) |-> IF i > addr /\ i <= addr + Len(b) THEN b[i - addr] ELSE d[i]]
BytesAt(ms, m, sid, addr, n) == [i \in 1..n |-> Seg(ms, m, sid).data[addr + i]]

\* s.slice(base, Len(b)) overwritten with the bytes b, in s.data and in the
\* spare capacity behind it
PutSlice(s, base, b) ==
  [s EXCEPT !.data = PutBytes(@, base, b), !.spare = PutBytes(@, base - SegLen(s), b)]
\* a write through Segment.slice: the slice expression aborts, with nothing
\* written, unless the region lies within the capacity
WriteSlice(ms, m, sid, addr, b) ==
  IF SliceOk(Seg(ms, m, sid), addr, Len(b))
  THEN WriteResult(errNil, [ms EXCEPT ![m].segs[sid + 1] = PutSlice(@, addr, b)])
  ELSE WriteResult(Panic, ms)
\* Segment.writeUint8(addr, val)
writeUint8(ms, m, sid, addr, val) == WriteSlice(ms, m, sid, addr, <<val>>)
\* Segment.writeUint64(addr, val), val as its eight bytes
writeUint64(ms, m, sid, addr, val) == WriteSlice(ms, m, sid, addr, val)
\* Segment.writeRawPointer(addr, val)
writeRawPointer(ms, m, sid, addr, val) == writeUint64(ms, m, sid, addr, val)
\* a write that follows another: not made once one has aborted
ThenWrite(w, m, sid, addr, val) ==
  IF w.err # errNil THEN w ELSE writeRawPointer(w.ms, m, sid, addr, val)

\* hasCapacity(s.data, sz): sz <= cap - len
hasCapacity(s, sz) == sz <= s.cap - SegLen(s)

\* alloc(s, sz): a zeroed region of sz bytes padded to whole words, at the end
\* of the preferred segment if it has the capacity, else at the end of the
\* first segment of the message that has, else in a new segment
AllocResult(ms, sid, addr) == [err |-> errNil, ms |-> ms, seg |-> sid, addr |-> addr]
Grow(ms, m, sid, sz) ==
  AllocResult([ms EXCEPT ![m].segs[sid + 1] =
                 [@ EXCEPT !.data = @ \o Zeros(sz),
                           !.spare = SubSeq(@, sz + 1, Len(@))]],
              sid, SegLen(Seg(ms, m, sid)))
NewSegment(ms, m, sz) ==
  AllocResult([ms EXCEPT ![m].segs = Append(@, [data |-> Zeros(sz),
                                                cap |-> sz + ms[m].room,
                                                spare |-> Zeros(ms[m].room)])],
              NumSegs(ms, m), 0)
MinOf(S) == CHOOSE x \in S : \A y \in S : x <= y
AllocIn(ms, m, fits, sz) ==
  IF fits = {} THEN NewSegment(ms, m, sz) ELSE Grow(ms, m, MinOf(fits), sz)
allocSegment(ms, m, sz) ==
  AllocIn(ms, m, {i \in 0..(NumSegs(ms, m) - 1) : hasCapacity(Seg(ms, m, i), sz)}, sz)
AllocPadded(ms, m, sid, sz) ==
  IF hasCapacity(Seg(ms, m, sid), sz) THEN Grow(ms, m, sid, sz)
  ELSE allocSegment(ms, m, sz)
alloc(ms, m, sid, sz) == AllocPadded(ms, m, sid, padToWord(sz))

\* the word offset that makes a pointer at paddr resolve to addr
makePointerOffset(paddr, addr) == ((addr - paddr) \div wordSize) - 1

\* Ptr.address: where the object starts (a composite list starts at its tag)
address(p) ==
  IF p.kind = "list" /\ "isCompositeList" \in p.flags THEN p.off - wordSize ELSE p.off

\* List.value: the element size tag of a plain list
ListTypeOf(sz) ==
  CASE sz = ObjectSize(0, 1) -> pointerList
    [] sz = ObjectSize(1, 0) -> byte1List
    [] sz = ObjectSize(2, 0) -> byte2List
    [] sz = ObjectSize(4, 0) -> byte4List
    [] sz = ObjectSize(8, 0) -> byte8List
    [] OTHER -> voidList
\* Ptr.value(paddr): the pointer word that, stored at paddr, refers to p
value(p, paddr) ==
  CASE p.kind = "struct" -> rawStructPointer(makePointerOffset(paddr, p.off), p.size)
    [] p.kind = "list" /\ "isCompositeList" \in p.flags ->
         rawListPointer(makePointerOffset(paddr, p.off - wordSize), compositeList,
                        p.length * (totalSize(p.size) \div wordSize))
    [] p.kind = "list" /\ "isBitList" \in p.flags ->
         rawListPointer(makePointerOffset(paddr, p.off), bit1List, p.length)
    [] p.kind = "list" ->
         rawListPointer(makePointerOffset(paddr, p.off), ListTypeOf(p.size), p.length)
    [] p.kind = "interface" -> rawInterfacePointer(p.cap)
    [] OTHER -> ZeroWord

\* List.allocSize: the bytes of the list, with the tag word of a composite list
allocSize(l) ==
  IF "isBitList" \in l.flags THEN (l.length + 7) \div 8
  ELSE IF "isCompositeList" \in l.flags
  THEN SizeOrMax(times(totalSize(l.size), l.length)) + wordSize
  ELSE SizeOrMax(times(totalSize(l.size), l.length))

\* Interface.Client: the client of the capability table, nil (0) if none
Client(ms, i) ==
  IF i.kind = "interface" /\ i.cap >= 0 /\ i.cap < Len(ms[i.msg].caps)
  THEN ms[i.msg].caps[i.cap + 1] ELSE 0
\* Message.AddCap: appends the client; its index is the old length
AddCap(ms, m, c) == [ms EXCEPT ![m].caps = Append(@, c)]

maxDepth == MaxInt32

RECURSIVE writePtr(_, _, _, _, _, _)
RECURSIVE CopyPtrs(_, _, _, _)
RECURSIVE CopyElems(_, _, _, _)

\* copyStruct, pointer j: from the write of the destination's pointer on
CopyPtrWritten(w, dst, src, j) ==
  IF w.err # errNil THEN w ELSE CopyPtrs(w.ms, dst, src, j + 1)
\* copyStruct, pointer j: from the read of the source's pointer on
CopyPtrRead(ms, dst, src, j, r) ==
  IF r.err # errNil THEN WriteResult(r.err, SetLimit(ms, src.msg, r.limit))
  ELSE CopyPtrWritten(writePtr(SetLimit(ms, src.msg, r.limit), dst.msg, dst.seg,
                               pointerAddress(dst, j), r.ptr, FALSE),
                      dst, src, j)
ZeroPtrs(ms, dst, j) ==
  SetData(ms, dst.msg, dst.seg,
          PutBytes(Seg(ms, dst.msg, dst.seg).data, pointerAddress(dst, j),
                   Zeros(wordSize * (dst.size.PointerCount - j))))
CopyPtrs(ms, dst, src, j) ==
  IF j < src.size.PointerCount /\ j < dst.size.PointerCount
  THEN CopyPtrRead(ms, dst, src, j,
                   readPtr(ms, src.msg, src.seg, pointerAddress(src, j), src.depthLimit))
  ELSE IF j < dst.size.PointerCount THEN WriteResult(errNil, ZeroPtrs(ms, dst, j))
  ELSE WriteResult(errNil, ms)
\* copyStruct, data section: the source's bytes, zeros where it has none
CopyData(ms, dst, src) ==
  SetData(ms, dst.msg, dst.seg,
          PutBytes(Seg(ms, dst.msg, dst.seg).data, dst.off,
                   [i \in 1..dst.size.DataSize |->
                      IF i <= src.size.DataSize
                      THEN Seg(ms, src.msg, src.seg).data[src.off + i] ELSE 0]))
\* copyStruct(dst, src): the data, then each pointer read from src and written
\* to dst
copyStruct(ms, dst, src) ==
  IF ~IsValid(dst) THEN WriteResult(errNil, ms)
  ELSE CopyPtrs(CopyData(ms, dst, src), dst, src, 0)

\* the element by element copy of a list
CopyElemDone(c, dst, l, i) ==
  IF c.err # errNil THEN c ELSE CopyElems(c.ms, dst, l, i + 1)
CopyElems(ms, dst, l, i) ==
  IF i < ListLen(l)
  THEN CopyElemDone(copyStruct(ms, ListStruct(dst, i), ListStruct(l, i)), dst, l, i)
  ELSE WriteResult(errNil, ms)

\* writePtr, the object in another segment and no room there for a landing
\* pad: a two word pad {far pointer to the object, tag}, from its alloc on
DoubleFar(m, sid, off, src, a) ==
  IF a.err # errNil THEN WriteResult(a.err, a.ms)
  ELSE ThenWrite(
         ThenWrite(
           writeRawPointer(a.ms, m, a.seg, a.addr,
                           rawFarPointer(src.seg, address(src))),
           m, a.seg, a.addr + wordSize, value(src, address(src) - wordSize)),
         m, sid, off, rawDoubleFarPointer(a.seg, a.addr))
\* writePtr, the object in another segment that has room: a one word pad in
\* the object's segment, from its alloc on
SingleFar(m, sid, off, src, a) ==
  ThenWrite(writeRawPointer(a.ms, m, src.seg, a.addr, value(src, a.addr)),
            m, sid, off, rawFarPointer(src.seg, a.addr))
\* writePtr from "Create far pointer if object is in a different segment" on
Emit(ms, m, sid, off, src) ==
  IF src.seg # sid
  THEN IF ~hasCapacity(Seg(ms, m, src.seg), wordSize)
       THEN DoubleFar(m, sid, off, src, alloc(ms, m, sid, 2 * wordSize))
       ELSE SingleFar(m, sid, off, src, alloc(ms, m, src.seg, wordSize))
  ELSE writeRawPointer(ms, m, sid, off, value(src, off))

\* writePtr, struct case
StructNeedsCopy_Unforced(m, src, forceCopy) ==
  src.msg # m \/ "isListMember" \in src.flags
StructNeedsCopy(m, src, forceCopy) ==
  forceCopy \/ src.msg # m \/ "isListMember" \in src.flags
StructCopied(m, sid, off, dst, c) ==
  IF c.err # errNil THEN c ELSE Emit(c.ms, m, sid, off, dst)
StructInto(ms, m, sid, off, st, dst) ==
  StructCopied(m, sid, off, dst, copyStruct(ms, dst, st))
StructAlloc(m, sid, off, st, a) ==
  IF a.err # errNil THEN WriteResult(a.err, a.ms)
  ELSE StructInto(a.ms, m, sid, off, st,
                  StructView(m, a.seg, a.addr, st.size, {}, maxDepth))

\* writePtr, list case
ListNeedsCopy(m, src, forceCopy) == forceCopy \/ src.msg # m
ListCopied(m, sid, off, dst, c) ==
  IF c.err # errNil THEN c ELSE Emit(c.ms, m, sid, off, dst)
ListBody(ms, m, sid, off, l, dst, sz) ==
  IF "isBitList" \in dst.flags \/ dst.size.PointerCount = 0
  THEN Emit(SetData(ms, m, dst.seg,
                    PutBytes(Seg(ms, m, dst.seg).data, dst.off,
                             BytesAt(ms, l.msg, l.seg, l.off, sz))),
            m, sid, off, dst)
  ELSE ListCopied(m, sid, off, dst, CopyElems(ms, dst, l, 0))
\* writePtr, composite list: from the write of the copied tag word on
ListTagged(w, m, sid, off, l, a) ==
  IF w.err # errNil THEN w
  ELSE IF ~addSize(a.addr, wordSize).ok THEN WriteResult(errOverflow, w.ms)
  ELSE ListBody(w.ms, m, sid, off, l,
                ListView(m, a.seg, a.addr + wordSize, l.size, l.length, l.flags,
                         maxDepth),
                allocSize(l) - wordSize)
\* writePtr, composite list: from the read of the source's tag word on
ListTag(m, sid, off, l, a, tag) ==
  IF ~tag.ok THEN WriteResult(Panic, a.ms)
  ELSE ListTagged(writeRawPointer(a.ms, m, a.seg, a.addr, tag.val), m, sid, off, l, a)
ListAlloc(m, sid, off, l, a) ==
  IF a.err # errNil THEN WriteResult(a.err, a.ms)
  ELSE IF "isCompositeList" \in l.flags
  THEN ListTag(m, sid, off, l, a,
               readRawPointer(Seg(a.ms, l.msg, l.seg), l.off - wordSize))
  ELSE ListBody(a.ms, m, sid, off, l,
                ListView(m, a.seg, a.addr, l.size, l.length, l.flags, maxDepth),
                allocSize(l))

\* writePtr(off, src, forceCopy) on segment sid of message m
writePtr(ms, m, sid, off, src, forceCopy) ==
  IF ~IsValid(src) THEN writeRawPointer(ms, m, sid, off, ZeroWord)
  ELSE CASE src.kind = "struct" ->
              IF StructNeedsCopy(m, src, forceCopy)
              THEN StructAlloc(m, sid, off, src, alloc(ms, m, sid, totalSize(src.size)))
              ELSE Emit(ms, m, sid, off, src)
         [] src.kind = "list" ->
              IF ListNeedsCopy(m, src, forceCopy)
              THEN ListAlloc(m, sid, off, src, alloc(ms, m, sid, allocSize(src)))
              ELSE Emit(ms, m, sid, off, src)
         [] OTHER ->
              IF src.msg # m
              THEN writeRawPointer(AddCap(ms, m, Client(ms, src)), m, sid, off,
                                   rawInterfacePointer(Len(ms[m].caps)))
              ELSE writeRawPointer(ms, m, sid, off, value(src, off))

----------------------------------------------------------------------------
(* Equality of pointers *)

\* the outcome of Equal: the verdict, the error, and the messages with what
\* the comparison's reads left of their read budgets
EqResult(eq, err, ms) == [eq |-> eq, err |-> err, ms |-> ms]

RECURSIVE Equal(_, _, _)
RECURSIVE EqPtrs(_, _, _, _, _)
RECURSIVE EqElems(_, _, _, _)

isZeroFilled(b) == \A i \in 1..Len(b) : b[i] = 0

\* the comparison of the data sections of two structs
DataEqual_Prefix(d1, d2) ==
  IF Len(d1) < Len(d2) THEN d1 = SubSeq(d2, 1, Len(d1))
  ELSE IF Len(d1) > Len(d2) THEN SubSeq(d1, 1, Len(d2)) = d2
  ELSE d1 = d2
DataEqual(d1, d2) ==
  IF Len(d1) < Len(d2)
  THEN d1 = SubSeq(d2, 1, Len(d1)) /\ isZeroFilled(SubSeq(d2, Len(d1) + 1, Len(d2)))
  ELSE IF Len(d1) > Len(d2)
  THEN SubSeq(d1, 1, Len(d2)) = d2 /\ isZeroFilled(SubSeq(d1, Len(d2) + 1, Len(d1)))
  ELSE d1 = d2
DataOf(ms, st) == SubSeq(Seg(ms, st.msg, st.seg).data, st.off + 1, st.off + st.size.DataSize)

\* the pointers beyond the smaller pointer count: none may be set
NoPtrFrom(ms, st, n) == \A i \in n..(st.size.PointerCount - 1) : ~HasPtr(ms, st, i)
EqExcess_FirstOnly(ms, s1, s2, n) == EqResult(NoPtrFrom(ms, s1, n), errNil, ms)
EqExcess(ms, s1, s2, n) ==
  EqResult(NoPtrFrom(ms, s1, n) /\ NoPtrFrom(ms, s2, n), errNil, ms)

\* pointer i of the two structs: from the comparison of the two pointers on
EqPtrCompared(e, s1, s2, i, n) ==
  IF ~e.eq \/ e.err # errNil THEN EqResult(FALSE, e.err, e.ms)
  ELSE EqPtrs(e.ms, s1, s2, i + 1, n)
\* from the read of s2's pointer on
EqPtrRead2(ms, s1, s2, i, n, sp1, r2) ==
  IF r2.err # errNil THEN EqResult(FALSE, r2.err, SetLimit(ms, s2.msg, r2.limit))
  ELSE EqPtrCompared(Equal(SetLimit(ms, s2.msg, r2.limit), sp1, r2.ptr), s1, s2, i, n)
EqPtrSecond(ms, s1, s2, i, n, sp1) ==
  EqPtrRead2(ms, s1, s2, i, n, sp1, StructPtr(ms, s2, i))
\* from the read of s1's pointer on
EqPtrRead1(ms, s1, s2, i, n, r1) ==
  IF r1.err # errNil THEN EqResult(FALSE, r1.err, SetLimit(ms, s1.msg, r1.limit))
  ELSE EqPtrSecond(SetLimit(ms, s1.msg, r1.limit), s1, s2, i, n, r1.ptr)
EqPtrs(ms, s1, s2, i, n) ==
  IF i < n THEN EqPtrRead1(ms, s1, s2, i, n, StructPtr(ms, s1, i))
  ELSE EqExcess(ms, s1, s2, n)

\* the elements of two lists, as structs
EqElemCompared(e, l1, l2, i) ==
  IF ~e.eq \/ e.err # errNil THEN EqResult(FALSE, e.err, e.ms)
  ELSE EqElems(e.ms, l1, l2, i + 1)
EqElems(ms, l1, l2, i) ==
  IF i < ListLen(l1)
  THEN EqElemCompared(Equal(ms, ListStruct(l1, i), ListStruct(l2, i)), l1, l2, i)
  ELSE EqResult(TRUE, errNil, ms)

\* l.flags & mask, the list flags being isCompositeList = 1, isBitList = 2
isCompositeList == 1
isBitList == 2
FlagsAnd(fl, mask) ==
  (IF "isCompositeList" \in fl THEN isCompositeList * (mask % 2) ELSE 0)
    + (IF "isBitList" \in fl THEN isBitList * ((mask \div 2) % 2) ELSE 0)

\* the bytes of a list of sz bytes
ListBytes(ms, l, sz) == SubSeq(Seg(ms, l.msg, l.seg).data, l.off + 1, l.off + sz)

\* the interface case: same message and same index, or the same client
InTable(ms, i) == i.cap >= 0 /\ i.cap < Len(ms[i.msg].caps)
EqInterface(ms, i1, i2) ==
  IF i1.msg = i2.msg /\ i1.cap = i2.cap THEN TRUE
  ELSE IF i1.msg = i2.msg /\ (~InTable(ms, i1) \/ ~InTable(ms, i2)) THEN FALSE
  ELSE Client(ms, i1) = Client(ms, i2)

MinNat(a, b) == IF b < a THEN b ELSE a

Equal(ms, p1, p2) ==
  IF ~IsValid(p1) /\ ~IsValid(p2) THEN EqResult(TRUE, errNil, ms)
  ELSE IF ~IsValid(p1) \/ ~IsValid(p2) THEN EqResult(FALSE, errNil, ms)
  ELSE IF p1.kind # p2.kind THEN EqResult(FALSE, errNil, ms)
  ELSE CASE p1.kind = "struct" ->
              IF ~DataEqual(DataOf(ms, p1), DataOf(ms, p2))
              THEN EqResult(FALSE, errNil, ms)
              ELSE EqPtrs(ms, p1, p2, 0,
                          MinNat(p1.size.PointerCount, p2.size.PointerCount))
         [] p1.kind = "list" ->
              IF ListLen(p1) # ListLen(p2) THEN EqResult(FALSE, errNil, ms)
              ELSE IF /\ FlagsAnd(p1.flags, compositeList) = 0
                      /\ FlagsAnd(p2.flags, compositeList) = 0
                      /\ p1.size # p2.size
              THEN EqResult(FALSE, errNil, ms)
              ELSE IF /\ p1.size.PointerCount = 0
                      /\ p2.size.PointerCount = 0
                      /\ p1.size.DataSize = p2.size.DataSize
              THEN EqResult(ListBytes(ms, p1, times(totalSize(p1.size), p1.length).v)
                              = ListBytes(ms, p2, times(totalSize(p1.size), p1.length).v),
                            errNil, ms)
              ELSE EqElems(ms, p1, p2, 0)
         [] OTHER -> EqResult(EqInterface(ms, p1, p2), errNil, ms)

----------------------------------------------------------------------------
(* Reading an untrusted message *)

\* sizes of the explored runs
MaxDepth == 2      \* depth budgets 0..MaxDepth are handed to readPtr
MaxSteps == 3      \* operations of one run
ReadBudget == 24   \* the read traversal budget of a received message, in bytes

Two29m1 == Two29 - 1

Words8(ws) == [i \in 1..(8 * Len(ws)) |-> ws[((i - 1) \div 8) + 1][((i - 1) % 8) + 1]]
\* a received segment: len = cap
Wire(ws) == [data |-> Words8(ws), cap |-> 8 * Len(ws), spare |-> <<>>]
DataWord(b) == <<b, 0, 0, 0, 0, 0, 0, 0>>

\* Received messages: a struct whose pointer refers back to itself; a composite
\* list of two one-word elements; a far and a double-far pointer with their
\* landing pads in a second segment.
BaseLoop ==
  <<Wire(<<rawStructPointer(0, ObjectSize(8, 1)),
           DataWord(1),
           rawStructPointer(-2, ObjectSize(8, 1))>>)>>
BaseList ==
  <<Wire(<<rawListPointer(0, compositeList, 2),
           rawStructPointer(2, ObjectSize(8, 0)),
           DataWord(1),
           DataWord(2)>>)>>
BaseFar ==
  <<Wire(<<rawFarPointer(1, 0),
           rawDoubleFarPointer(1, 8),
           DataWord(7)>>),
    Wire(<<rawStructPointer(2, ObjectSize(8, 0)),
           rawFarPointer(0, 16),
           rawStructPointer(0, ObjectSize(8, 0)),
           DataWord(9)>>)>>
BaseSegs == {BaseLoop, BaseList, BaseFar}

\* The words an attacker may put in place of a word of the message
StructWords ==
  {rawStructPointer(o, ObjectSize(8 * d, p)) :
     o \in {-Two29, -1, 0, Two29m1}, d \in {0, 1}, p \in {0, 1}}
    \cup {rawStructPointer(0, ObjectSize(8 * 65535, 65535))}
ListWords ==
  {rawListPointer(0, lt, n) : lt \in voidList..compositeList, n \in {0, 1, Two29m1}}
    \cup {rawListPointer(o, compositeList, 0) : o \in {-1, 1, 2}}
FarWords ==
  {rawFarWord(t, id, a) : t \in {farPointer, doubleFarPointer}, id \in {0, 1, 2},
                          a \in {0, 8, 24, FromWords(Two29m1, 0)}}
OtherWords == {rawInterfacePointer(0), rawInterfacePointer(-1), <<7, 0, 0, 0, 0, 0, 0, 0>>}
AttackWords == StructWords \cup ListWords \cup FarWords \cup OtherWords \cup {ZeroWord}

\* segs with word w (0-based) of segment sid replaced
PutWord(segs, sid, w, val) ==
  [segs EXCEPT ![sid + 1].data =
     [i \in 1..Len(@) |-> IF i > 8 * w /\ i <= 8 * w + 8 THEN val[i - 8 * w] ELSE @[i]]]

\* The received messages: a base message as it is, or with one of its pointer
\* words, landing pad words or tag words replaced by an attacker's word.
ReceivedSegs ==
  BaseSegs
    \cup {PutWord(BaseLoop, 0, w, val) : w \in {0, 2}, val \in AttackWords}
    \cup {PutWord(BaseList, 0, w, val) : w \in {0, 1, 3}, val \in AttackWords}
    \cup {PutWord(BaseFar, 0, w, val) : w \in {0, 1}, val \in FarWords}
    \cup {PutWord(BaseFar, 1, w, val) : w \in {0, 1, 2}, val \in AttackWords}

\* room: the spare capacity the arena gives a segment it adds to the message
Message(segs, limit, caps) == [segs |-> segs, limit |-> limit, caps |-> caps, room |-> 0]

WordAddrs(s) == {wordSize * w : w \in 0..((SegLen(s) \div wordSize) - 1)}
IsObject(p) == p.kind \in {"struct", "list"}

\* The places a caller may start reading a message from: any word address of
\* any segment, with any depth budget
Entries(ms) ==
  UNION {UNION {{[msg |-> m, seg |-> sid, off |-> off, depth |-> d] :
                   off \in WordAddrs(Seg(ms, m, sid)), d \in 0..MaxDepth} :
                sid \in 0..(NumSegs(ms, m) - 1)} :
         m \in 1..Len(ms)}

\* the bookkeeping of a run: entry[k] is where handle k starts reading
Ghost0(ms, e1, e2) ==
  [budget0 |-> [m \in 1..Len(ms) |-> ms[m].limit],
   spent   |-> [m \in 1..Len(ms) |-> 0],
   entry   |-> <<e1, e2>>,
   valid   |-> <<FALSE, FALSE>>,
   root    |-> <<0, 0>>,
   hops    |-> <<0, 0>>,
   wrote   |-> FALSE,
   steps   |-> 0]
Last0 ==
  [op |-> "init", err |-> errNil, ptr |-> NullPtr, inb |-> TRUE, k |-> 0,
   msg |-> 0, seg |-> 0, off |-> 0, depth |-> 0, limit |-> 0, hops |-> 0, root |-> 0,
   force |-> FALSE, src |-> NullPtr, eq |-> FALSE, pre |-> <<>>]

InitRead ==
  /\ msgs \in {<<Message(segs, limit, <<>>)>> :
                 segs \in ReceivedSegs, limit \in {ReadBudget, 2 * ReadBudget}}
  /\ held = <<NullPtr, NullPtr>>
  /\ last = Last0
  /\ \E entry \in Entries(msgs) : ghost = Ghost0(msgs, entry, entry)

\* readPtr(off, depth) on segment sid of message m, the result kept in held[k];
\* hops and root describe the chain of dereferences the read belongs to
Returned(k, m, sid, off, depth, root, hops, r, got) ==
  /\ ghost.steps < MaxSteps
  /\ msgs' = [msgs EXCEPT ![m].limit = r.limit]
  /\ held' = IF r.err = errNil THEN [held EXCEPT ![k] = r.ptr] ELSE held
  /\ last' = [Last0 EXCEPT !.op = "read", !.err = r.err, !.ptr = r.ptr, !.inb = r.inb,
                           !.k = k, !.msg = m, !.seg = sid, !.off = off,
                           !.depth = depth, !.limit = msgs[m].limit,
                           !.hops = hops, !.root = root]
  /\ ghost' = [ghost EXCEPT
                 !.spent[m] = @ + (IF got THEN readSize(r.ptr) ELSE 0),
                 !.valid[k] = @ \/ r.err = errNil,
                 !.root[k] = IF got THEN root ELSE @,
                 !.hops[k] = IF got THEN hops + 1 ELSE @,
                 !.steps = @ + 1]
Got(k, m, sid, off, depth, root, hops, r) ==
  Returned(k, m, sid, off, depth, root, hops, r, r.err = errNil /\ IsObject(r.ptr))
DoRead(k, m, sid, off, depth, root, hops) ==
  Got(k, m, sid, off, depth, root, hops, readPtr(msgs, m, sid, off, depth))

\* the caller reads the pointer word that handle k starts from
ReadAt(k) ==
  /\ k \in DOMAIN ghost.entry
  /\ DoRead(k, ghost.entry[k].msg, ghost.entry[k].seg, ghost.entry[k].off,
            ghost.entry[k].depth, ghost.entry[k].depth, 0)

\* the caller follows pointer i of the struct it holds, or of element e of the
\* list it holds, with the depth budget the view carries
SlotOf(k, st, i) ==
  /\ st.kind = "struct"
  /\ i < st.size.PointerCount
  /\ DoRead(k, st.msg, st.seg, pointerAddress(st, i), st.depthLimit,
            ghost.root[k], ghost.hops[k])
ReadSlot(k) ==
  /\ IsObject(held[k])
  /\ \E e \in 0..1, i \in 0..1 :
       /\ held[k].kind = "struct" => e = 0
       /\ SlotOf(k, IF held[k].kind = "struct" THEN held[k] ELSE ListStruct(held[k], e), i)

NextRead == ReadAt(1) \/ ReadSlot(1)

SpecRead == InitRead /\ [][NextRead]_vars

----------------------------------------------------------------------------
(* Properties of the reader *)

IsRead == last.op = "read"
ReadOk == IsRead /\ last.err = errNil
ReadView_Ok == ReadOk /\ IsObject(last.ptr)
\* the pointer word the last read started from
WordRead == readRawPointer(Seg(msgs, last.msg, last.seg), last.off).val

\* the byte size of the data region of a view
RegionSize(p) ==
  CASE p.kind = "struct" -> totalSize(p.size)
    [] "isBitList" \in p.flags -> (p.length + 7) \div 8
    [] OTHER -> p.length * totalSize(p.size)
ViewInSegment(p) ==
  /\ p.off >= 0
  /\ p.kind = "list" => p.length >= 0
  /\ RegionSize(p) >= 0
  /\ p.off + RegionSize(p) <= SegLen(Seg(msgs, p.msg, p.seg))

\* C1: a struct or list view that readPtr returns without error has its whole
\* data region inside the data of its segment, and a list's length (for a
\* composite list the element count of the tag word) is never negative.
C1_ViewRegionInBounds == ReadView_Ok => ViewInSegment(last.ptr)

\* C3: along a chain of dereferences started with depth budget D, each read
\* is made with the budget the chain has left, a returned view carries exactly
\* one less than the budget it was read with, a read with budget left is never
\* rejected for depth, and with no budget left no view is returned: a
\* non-null pointer that resolves is rejected with DepthLimit.
C3_DepthBudget ==
  IsRead =>
    /\ last.hops <= last.root
    /\ last.depth = last.root - last.hops
    /\ ReadView_Ok => last.ptr.depthLimit = last.depth - 1
    /\ last.depth > 0 => last.err # errDepthLimit
    /\ last.depth = 0 => ~ReadView_Ok
    /\ (/\ last.depth = 0
        /\ WordRead # ZeroWord
        /\ pointerType(WordRead) \notin {farPointer, doubleFarPointer})
         => last.err = errDepthLimit
\* a chain of two dereferences was followed and the third was rejected
C3_ChainExhausted ==
  /\ IsRead /\ last.err = errDepthLimit
  /\ last.root >= 2 /\ last.hops = last.root

\* C4: the read sizes of all struct and list views returned from a message
\* never add up to more than the message's initial read budget; a view is
\* returned only if its read size fits in the budget left, which it then
\* reduces, and a decode that does not fit returns ReadLimit.
C4_ReadBudget ==
  /\ \A m \in 1..Len(msgs) :
       /\ ghost.spent[m] <= ghost.budget0[m]
       /\ msgs[m].limit >= 0
       /\ ghost.spent[m] + msgs[m].limit <= ghost.budget0[m]
  /\ ReadView_Ok =>
       /\ readSize(last.ptr) >= 0
       /\ readSize(last.ptr) <= last.limit
       /\ msgs[last.msg].limit = last.limit - readSize(last.ptr)
  /\ (IsRead /\ last.err = errReadLimit) => msgs[last.msg].limit = 0
\* an object was decoded, and a later decode did not fit in what was left
C4_BudgetExhausted ==
  /\ IsRead /\ last.err = errReadLimit
  /\ ghost.spent[last.msg] > 0
  /\ last.limit > 0

\* the landing pad of the far or double-far pointer w read in segment sid of
\* message m is malformed
PadSegment(m, sid, w) == lookupSegment(msgs, m, sid, farSegment(w))
PadWord(m, sid, w, i) ==
  readRawPointer(Seg(msgs, m, PadSegment(m, sid, w).seg), farAddress(w) + wordSize * i).val
IsFar(w) == pointerType(w) \in {farPointer, doubleFarPointer}
PadSize(w) == IF pointerType(w) = doubleFarPointer THEN 2 * wordSize ELSE wordSize
PadOutside(m, sid, w) ==
  /\ PadSegment(m, sid, w).err = errNil
  /\ ~regionInBounds(Seg(msgs, m, PadSegment(m, sid, w).seg), farAddress(w), PadSize(w))
MalformedPad(m, sid, w) ==
  /\ IsFar(w)
  /\ \/ PadSegment(m, sid, w).err # errNil
     \/ PadOutside(m, sid, w)
     \/ /\ ~PadOutside(m, sid, w)
        /\ pointerType(w) = doubleFarPointer
        /\ \/ pointerType(PadWord(m, sid, w, 0)) # farPointer
           \/ offset(PadWord(m, sid, w, 1)) # 0
           \/ lookupSegment(msgs, m, PadSegment(m, sid, w).seg,
                            farSegment(PadWord(m, sid, w, 0))).err # errNil

\* C7: a read that follows a far or double-far pointer whose landing pad is
\* malformed (region not inside the target segment, first word of a double-far
\* pad not a far pointer, tag offset not zero, segment missing) fails with
\* BadLandingPad.
C7_MalformedPadIsBadLandingPad ==
  (IsRead /\ MalformedPad(last.msg, last.seg, WordRead)) => last.err = errBadLandingPad

\* C10: every segment access of a read addresses a region inside the data of
\* the accessed segment, so the read returns a view or an error kind.
C10_AccessesInBounds == IsRead => (last.inb /\ last.err # Panic)

----------------------------------------------------------------------------
(* Objects laid out in a segment *)

\* A block is a pointer word followed by the object it refers to; but for a
\* far pointer its pointers are relative, so a block may be put anywhere.
\* The description of an object: k its kind, data the values of its data
\* words (of its elements' data words for a list), slots its pointers, lt and
\* n the element size tag and the length of a plain list, n the capability of
\* an interface.
Desc(k, data, slots, lt, n) == [k |-> k, data |-> data, slots |-> slots, lt |-> lt, n |-> n]
NullSlot == [t |-> "null", v |-> 0]
Child(v) == [t |-> "child", v |-> v]     \* a struct of one data word v
FarNull == [t |-> "far", v |-> 0]        \* a far pointer to a zero landing pad

\* the data word holding the 16 bit value v
ValueWord(v) == <<v % 256, v \div 256, 0, 0, 0, 0, 0, 0>>
\* the word of a slot at word si of the block, its child or pad at word ci
SlotWord(slot, base, si, ci) ==
  CASE slot.t = "child" -> rawStructPointer((ci - si) - 1, ObjectSize(8, 0))
    [] slot.t = "far" -> rawFarPointer(0, base + wordSize * ci)
    [] OTHER -> ZeroWord
ChildWord(slot) == IF slot.t = "child" THEN ValueWord(slot.v) ELSE ZeroWord
DataWords(data) == [i \in 1..Len(data) |-> ValueWord(data[i])]
ChildWords(slots) == [i \in 1..Len(slots) |-> ChildWord(slots[i])]

StructBlock(d, base) ==
  IF Len(d.data) = 0 /\ Len(d.slots) = 0
  THEN <<rawStructPointer(-1, ObjectSize(0, 0))>>
  ELSE <<rawStructPointer(0, ObjectSize(wordSize * Len(d.data), Len(d.slots)))>>
         \o DataWords(d.data)
         \o [i \in 1..Len(d.slots) |->
               SlotWord(d.slots[i], base, Len(d.data) + i,
                        Len(d.data) + Len(d.slots) + i)]
         \o ChildWords(d.slots)
\* a plain list: the payload is the data words
PlainBlock(d) == <<rawListPointer(0, d.lt, d.n)>> \o DataWords(d.data)
\* a pointer list of the slots
PointerBlock(d, base) ==
  <<rawListPointer(0, pointerList, Len(d.slots))>>
    \o [i \in 1..Len(d.slots) |-> SlotWord(d.slots[i], base, i, Len(d.slots) + i)]
    \o ChildWords(d.slots)
\* a composite list of Len(data) elements of one data word, and of one
\* pointer each if there are slots
CompositeBlock(d, base) ==
  IF Len(d.slots) = 0
  THEN <<rawListPointer(0, compositeList, Len(d.data)),
         rawStructPointer(Len(d.data), ObjectSize(8, 0))>>
         \o DataWords(d.data)
  ELSE <<rawListPointer(0, compositeList, 2 * Len(d.data)),
         rawStructPointer(Len(d.data), ObjectSize(8, 1))>>
         \o [j \in 1..(2 * Len(d.data)) |->
               IF j % 2 = 1 THEN ValueWord(d.data[(j + 1) \div 2])
               ELSE SlotWord(d.slots[j \div 2], base, j + 1,
                             1 + 2 * Len(d.data) + (j \div 2))]
         \o ChildWords(d.slots)
Block(d, base) ==
  CASE d.k = "struct" -> StructBlock(d, base)
    [] d.k = "list" -> PlainBlock(d)
    [] d.k = "plist" -> PointerBlock(d, base)
    [] d.k = "clist" -> CompositeBlock(d, base)
    [] d.k = "iface" -> <<rawInterfacePointer(d.n)>>
    [] OTHER -> <<ZeroWord>>

\* a segment of a message being built: cap - len bytes are still free
Arena(ws, free) ==
  [data |-> Words8(ws), cap |-> 8 * Len(ws) + free, spare |-> Zeros(free)]
Builder(segs, limit, caps, room) ==
  [segs |-> segs, limit |-> limit, caps |-> caps, room |-> room]

\* every read budget topped up, for looking at a message after the fact
Refill(ms) == [m \in 1..Len(ms) |-> [ms[m] EXCEPT !.limit = MaxInt32]]

----------------------------------------------------------------------------
(* Writing pointers into messages being built *)

\* The objects a pointer is written to: structs with and without data and
\* pointers, lists of every element kind, interfaces, null
WriteObjs ==
  {Desc("struct", <<>>, <<>>, 0, 0),
   Desc("struct", <<5>>, <<>>, 0, 0),
   Desc("struct", <<5>>, <<Child(7)>>, 0, 0),
   Desc("struct", <<5, 9>>, <<Child(7), NullSlot>>, 0, 0),
   Desc("struct", <<>>, <<Child(7), Child(8)>>, 0, 0),
   Desc("list", <<>>, <<>>, voidList, 2),
   Desc("list", <<5>>, <<>>, bit1List, 3),
   Desc("list", <<513>>, <<>>, byte1List, 2),
   Desc("list", <<5, 9>>, <<>>, byte8List, 2),
   Desc("plist", <<>>, <<Child(7), NullSlot>>, 0, 0),
   Desc("clist", <<5, 9>>, <<>>, 0, 0),
   Desc("clist", <<5, 9>>, <<Child(7), Child(8)>>, 0, 0),
   Desc("iface", <<>>, <<>>, 0, 0),
   Desc("iface", <<>>, <<>>, 0, 2),
   Desc("null", <<>>, <<>>, 0, 0)}

\* Two messages being built.  Word 0 of every segment is a free pointer slot.
\* The first message has the object in segment 0, after the slot, and a second
\* segment; the second message has one segment.
WriteMsgs(o, f0, f1, f2, room) ==
  <<Builder(<<Arena(<<ZeroWord>> \o Block(o, wordSize), f0), Arena(<<ZeroWord>>, f1)>>,
            8 * ReadBudget, <<1, 2>>, room),
    Builder(<<Arena(<<ZeroWord>>, f2)>>, 8 * ReadBudget, <<2>>, room)>>
ObjectEntry(d) == [msg |-> 1, seg |-> 0, off |-> wordSize, depth |-> d]

InitWrite ==
  /\ \E o \in WriteObjs, f0 \in {0, 8, 64}, f1 \in {0, 64}, f2 \in {0, 64},
        room \in {0, 16} :
       msgs = WriteMsgs(o, f0, f1, f2, room)
  /\ held = <<NullPtr, NullPtr>>
  /\ last = Last0
  /\ \E d \in {1, MaxDepth} : ghost = Ghost0(msgs, ObjectEntry(d), ObjectEntry(d))

\* the free pointer slots
DstSlots(ms) ==
  UNION {{[msg |-> m, seg |-> sid, off |-> 0] : sid \in 0..(NumSegs(ms, m) - 1)} :
         m \in 1..Len(ms)}
\* what the caller may write: the view it holds, or the first element of the
\* composite list it holds
Sources(p) ==
  IF p.kind = "list" /\ "isCompositeList" \in p.flags /\ IsValid(ListStruct(p, 0))
  THEN {p, ListStruct(p, 0)} ELSE {p}

\* writePtr(dst.off, src, force) on segment dst.seg of message dst.msg
Written(k, dst, src, force, w) ==
  /\ msgs' = w.ms
  /\ last' = [Last0 EXCEPT !.op = "write", !.err = w.err, !.k = k, !.msg = dst.msg,
                           !.seg = dst.seg, !.off = dst.off,
                           !.depth = ghost.entry[k].depth,
                           !.force = force, !.src = src, !.pre = msgs]
  /\ ghost' = [ghost EXCEPT !.wrote = TRUE, !.steps = @ + 1]
  /\ UNCHANGED held
Write(k) ==
  /\ ghost.steps < MaxSteps
  /\ ghost.valid[k]
  /\ ~ghost.wrote
  /\ \E dst \in DstSlots(msgs), src \in Sources(held[k]), force \in BOOLEAN :
       Written(k, dst, src, force,
               writePtr(msgs, dst.msg, dst.seg, dst.off, src, force))

\* after the write, the caller changes the first byte of the object through
\* the view it wrote
Poked(w) ==
  /\ msgs' = w.ms
  /\ last' = [last EXCEPT !.op = "poke", !.err = w.err, !.pre = msgs]
  /\ ghost' = [ghost EXCEPT !.steps = @ + 1]
  /\ UNCHANGED held
Poke ==
  /\ ghost.steps < MaxSteps
  /\ last.op = "write" /\ last.err = errNil
  /\ IsObject(last.src) /\ readSize(last.src) > 0
  /\ Poked(writeUint8(msgs, last.src.msg, last.src.seg, last.src.off,
                      (Seg(msgs, last.src.msg, last.src.seg).data[last.src.off + 1] + 1)
                        % 256))

NextWrite == ReadAt(1) \/ Write(1) \/ Poke

SpecWrite == InitWrite /\ [][NextWrite]_vars

----------------------------------------------------------------------------
(* Properties of the writer *)

WriteOk == last.op = "write" /\ last.err = errNil
EqTrue(e) == e.eq /\ e.err = errNil
\* readPtr at the address the last write wrote to, in messages ms, with the
\* depth budget the source was read with
ReadBack(ms) == readPtr(Refill(ms), last.msg, last.seg, last.off, last.depth)
\* the source can be compared at all with the depth its view carries
Comparable(p) == EqTrue(Equal(Refill(msgs), p, p))
ReadsBackEqual(rb) == rb.err = errNil /\ EqTrue(Equal(Refill(msgs), rb.ptr, last.src))

\* C2: after a successful writePtr(off, src, forceCopy), readPtr at off with
\* the depth budget src was read with succeeds and returns a pointer that
\* Equal reports equal to src, whether a near, a far or a double-far pointer
\* was written.
C2_WriteThenReadIsEqual ==
  (WriteOk /\ Comparable(last.src)) => ReadsBackEqual(ReadBack(msgs))

\* the bytes an object occupies: [RegionLo, RegionHi) of its segment
RegionLo(p) == address(p)
RegionHi(p) == p.off + RegionSize(p)
RegionBytes(ms, p) == SubSeq(Seg(ms, p.msg, p.seg).data, RegionLo(p) + 1, RegionHi(p))
\* p lies in space that messages pre did not have yet
Fresh(p, pre) ==
  \/ p.seg >= NumSegs(pre, p.msg)
  \/ RegionLo(p) >= SegLen(Seg(pre, p.msg, p.seg))
Disjoint(p, q) ==
  \/ p.msg # q.msg
  \/ p.seg # q.seg
  \/ RegionHi(p) <= RegionLo(q)
  \/ RegionHi(q) <= RegionLo(p)
FreshCopy(rb) ==
  /\ rb.err = errNil
  /\ IsObject(rb.ptr) => (Fresh(rb.ptr, last.pre) /\ Disjoint(rb.ptr, last.src))
  /\ ~IsObject(rb.ptr) => RegionSize(last.src) = 0
CopyUnchanged(rb) ==
  IsObject(rb.ptr) => RegionBytes(msgs, rb.ptr) = RegionBytes(last.pre, rb.ptr)

\* C8: after a successful writePtr(off, src, forceCopy = true) of a struct or
\* a list, the object the pointer at off refers to lies in space allocated by
\* the write and shares no byte with the object src refers to, also within
\* one segment; a later write through src leaves the bytes of the copy as
\* they were.
C8_ForcedCopyIsFresh ==
  /\ (WriteOk /\ last.force /\ IsObject(last.src)) => FreshCopy(ReadBack(msgs))
  /\ (last.op = "poke" /\ last.force) => CopyUnchanged(ReadBack(last.pre))
\* a forced copy within one segment was made and the original then changed
C8_CopiedThenPoked ==
  /\ last.op = "poke" /\ last.force
  /\ last.src.msg = last.msg /\ last.src.seg = last.seg
  /\ IsObject(ReadBack(last.pre).ptr)
  /\ RegionBytes(msgs, last.src) # RegionBytes(last.pre, last.src)

----------------------------------------------------------------------------
(* Comparing pointers *)

\* The objects compared: structs that differ in the size and the content of
\* their data, in the number and the content of their pointers; lists of
\* every element kind; interfaces; null
EqStructs ==
  {Desc("struct", d, sl, 0, 0) :
     d \in {<<>>, <<5>>, <<5, 0>>, <<5, 9>>},
     sl \in {<<>>, <<NullSlot>>, <<Child(7)>>, <<Child(8)>>,
             <<Child(7), NullSlot>>, <<Child(7), FarNull>>}}
EqLists ==
  {Desc("list", <<>>, <<>>, voidList, 1),
   Desc("list", <<0>>, <<>>, bit1List, 1),
   Desc("list", <<1>>, <<>>, bit1List, 1),
   Desc("list", <<1>>, <<>>, bit1List, 2),
   Desc("list", <<0>>, <<>>, byte1List, 1),
   Desc("list", <<1>>, <<>>, byte1List, 1),
   Desc("list", <<1>>, <<>>, byte2List, 1),
   Desc("list", <<257>>, <<>>, byte2List, 1),
   Desc("plist", <<>>, <<Child(7)>>, 0, 0),
   Desc("plist", <<>>, <<NullSlot>>, 0, 0),
   Desc("clist", <<1>>, <<>>, 0, 0),
   Desc("clist", <<1>>, <<Child(7)>>, 0, 0),
   Desc("clist", <<1>>, <<NullSlot>>, 0, 0)}
EqOthers ==
  {Desc("iface", <<>>, <<>>, 0, 0),
   Desc("iface", <<>>, <<>>, 0, 1),
   Desc("iface", <<>>, <<>>, 0, 2),
   Desc("null", <<>>, <<>>, 0, 0)}
EqObjs == EqStructs \cup EqLists \cup EqOthers

\* the two objects in one message, one after the other, or in two messages
\* whose capability tables hold the same two clients in different orders
EqMsgs(o1, o2, cross, limit) ==
  IF cross
  THEN <<Builder(<<Wire(Block(o1, 0))>>, limit, <<1, 2>>, 0),
         Builder(<<Wire(Block(o2, 0))>>, limit, <<2, 1>>, 0)>>
  ELSE <<Builder(<<Wire(Block(o1, 0) \o Block(o2, wordSize * Len(Block(o1, 0))))>>,
                 limit, <<1, 2>>, 0)>>
SecondEntry(o1, cross, d) ==
  IF cross THEN [msg |-> 2, seg |-> 0, off |-> 0, depth |-> d]
  ELSE [msg |-> 1, seg |-> 0, off |-> wordSize * Len(Block(o1, 0)), depth |-> d]

InitEq ==
  /\ held = <<NullPtr, NullPtr>>
  /\ last = Last0
  /\ \E o1 \in EqObjs, o2 \in EqObjs, cross \in BOOLEAN,
        limit \in {2 * ReadBudget, 8 * ReadBudget}, d1 \in {1, MaxDepth},
        d2 \in {1, MaxDepth} :
       /\ msgs = EqMsgs(o1, o2, cross, limit)
       /\ ghost = Ghost0(msgs, [msg |-> 1, seg |-> 0, off |-> 0, depth |-> d1],
                         SecondEntry(o1, cross, d2))

\* Equal(held[1], held[2]); its reads draw on the read budgets
Compared(e) ==
  /\ msgs' = e.ms
  /\ last' = [Last0 EXCEPT !.op = "equal", !.eq = e.eq, !.err = e.err, !.pre = msgs]
  /\ ghost' = [ghost EXCEPT !.steps = @ + 1]
  /\ UNCHANGED held
Compare ==
  /\ ghost.steps < MaxSteps
  /\ ghost.valid[1] /\ ghost.valid[2]
  /\ Compared(Equal(msgs, held[1], held[2]))

NextEq == ReadAt(1) \/ ReadAt(2) \/ Compare

SpecEq == InitEq /\ [][NextEq]_vars

----------------------------------------------------------------------------
(* Properties of Equal *)

Compared2(kind) ==
  /\ last.op = "equal" /\ last.err = errNil
  /\ held[1].kind = kind /\ held[2].kind = kind

\* byte i of a data section, zero beyond its end
ByteAt(d, i) == IF i <= Len(d) THEN d[i] ELSE 0
MaxNat(a, b) == IF a < b THEN b ELSE a
SameData(d1, d2) == \A i \in 1..MaxNat(Len(d1), Len(d2)) : ByteAt(d1, i) = ByteAt(d2, i)
\* the encoded word of pointer i of a struct
SlotWordOf(ms, st, i) ==
  SubSeq(Seg(ms, st.msg, st.seg).data, pointerAddress(st, i) + 1,
         pointerAddress(st, i) + wordSize)
SlotsNullFrom(ms, st, n) ==
  \A i \in n..(st.size.PointerCount - 1) : SlotWordOf(ms, st, i) = ZeroWord
SlotsDecode(ms, st) ==
  \A i \in 0..(st.size.PointerCount - 1) : StructPtr(Refill(ms), st, i).err = errNil
PairEqual(ms, r1, r2) == EqTrue(Equal(Refill(ms), r1.ptr, r2.ptr))
SlotsEqual(ms, s1, s2, n) ==
  \A i \in 0..(n - 1) :
    PairEqual(ms, StructPtr(Refill(ms), s1, i), StructPtr(Refill(ms), s2, i))
StructsEqual(ms, s1, s2) ==
  /\ SameData(DataOf(ms, s1), DataOf(ms, s2))
  /\ SlotsEqual(ms, s1, s2, MinNat(s1.size.PointerCount, s2.size.PointerCount))
  /\ SlotsNullFrom(ms, s1, s2.size.PointerCount)
  /\ SlotsNullFrom(ms, s2, s1.size.PointerCount)

\* C6: for two struct views whose pointers decode without error, Equal is
\* true exactly if (a) the data sections agree byte for byte once the shorter
\* is extended with zeros, (b) the pointers below the smaller pointer count
\* are pairwise Equal and (c) every pointer word beyond it is null.
C6_StructEqualIff ==
  (/\ Compared2("struct")
   /\ SlotsDecode(last.pre, held[1])
   /\ SlotsDecode(last.pre, held[2]))
    => (last.eq <=> StructsEqual(last.pre, held[1], held[2]))
\* two structs of different data size and pointer count were found equal
C6_EqualAcrossSizes ==
  /\ Compared2("struct") /\ last.eq
  /\ held[1].size.DataSize < held[2].size.DataSize
  /\ held[1].size.PointerCount > held[2].size.PointerCount
  /\ held[2].size.PointerCount > 0

\* element i of a bit list
BitAt(ms, l, i) ==
  (Seg(ms, l.msg, l.seg).data[l.off + (i \div 8) + 1] \div (2 ^ (i % 8))) % 2
IsBits(l) == "isBitList" \in l.flags
IsComposite(l) == "isCompositeList" \in l.flags
\* a bit as a struct of that one field, against a struct
BitEqualsStruct(ms, b, st) ==
  /\ SameData(<<b>>, DataOf(ms, st))
  /\ SlotsNullFrom(ms, st, 0)
ElemEqual(ms, l1, l2, i) ==
  CASE IsBits(l1) /\ IsBits(l2) -> BitAt(ms, l1, i) = BitAt(ms, l2, i)
    [] IsBits(l1) -> BitEqualsStruct(ms, BitAt(ms, l1, i), ListStruct(l2, i))
    [] IsBits(l2) -> BitEqualsStruct(ms, BitAt(ms, l2, i), ListStruct(l1, i))
    [] OTHER -> EqTrue(Equal(Refill(ms), ListStruct(l1, i), ListStruct(l2, i)))
\* the element kind of a list that is not composite
ElemKind(l) == <<IsBits(l), l.size>>
ListsEqual(ms, l1, l2) ==
  /\ l1.length = l2.length
  /\ (~IsComposite(l1) /\ ~IsComposite(l2)) => ElemKind(l1) = ElemKind(l2)
  /\ \A i \in 0..(l1.length - 1) : ElemEqual(ms, l1, l2, i)

\* C5: for two list views of any element kind, Equal is true exactly if the
\* lists have the same length (and, neither being composite, the same element
\* size) and their elements are pairwise equal; two lists whose elements
\* differ at some index are never found equal.
C5_ListEqualIff ==
  Compared2("list") => (last.eq <=> ListsEqual(last.pre, held[1], held[2]))

\* C9: Equal(p1, p2) and Equal(p2, p1), made from the same state, give the
\* same verdict, and one fails exactly if the other does.
Mirrors(r) == r.eq = last.eq /\ (r.err = errNil <=> last.err = errNil)
C9_EqualSymmetric ==
  last.op = "equal" => Mirrors(Equal(last.pre, held[2], held[1]))
\* two structs of unlike shape, the first with more data and fewer pointer
\* slots than the second, were compared and found equal
C9_ComparedUnlike ==
  /\ last.op = "equal" /\ last.eq
  /\ held[1].kind = "struct"
  /\ held[1].size.PointerCount < held[2].size.PointerCount
  /\ held[1].size.DataSize > held[2].size.DataSize

====
